---- MODULE Spec2Model ----
(***************************************************************************)
(* Model of packages/project-management-automation/lib/                    *)
(* add-first-time-contributor-label.js: one invocation of the push-event   *)
(* handler addFirstTimeContributorLabel( payload, octokit ), cut at its    *)
(* await points, together with the collaborators it talks to (the hosting  *)
(* REST API, the WordPress.org profile lookup, the debug sink).            *)
(***************************************************************************)
EXTENDS Integers, Sequences, FiniteSets, TLC

VARIABLES
    payload,     \* the push event handed to the handler (read only)
    pc,          \* where the async function stands: "start", the call it awaits, "done"
    outcome,     \* "pending", "returned" (promise fulfilled), "threw" (promise rejected)
    frame,       \* the handler's local constants and variables
    calls,       \* every external request issued so far, in order, with its settlement
    labels,      \* hosting service: the labels of each pull request
    comments,    \* hosting service: the comments of each pull request
    log          \* the messages handed to debug()

vars == <<payload, pc, outcome, frame, calls, labels, comments, log>>

----------------------------------------------------------------------------
(* Bounds of the model *)

\* longest payload.commits drawn
MaxCommits == 2
\* longest commit listing the hosting API answers with
MaxListed == 2

----------------------------------------------------------------------------
(* Values *)

\* JavaScript null (what getAssociatedPullRequest answers without a match) and
\* the value of a local that has not been assigned yet
NULL == -1

Refs == {"refs/heads/master", "refs/heads/trunk", "refs/tags/v1.0"}
HeadRefs == {"refs/heads/master", "refs/heads/trunk"}
Owners == {"WordPress", "rakunie"}
Repos == {"gutenberg"}
Authors == {"alice", "bob"}
Messages == {"Fix typo", "Add block (#42)", "Update docs (#7)", "Revert (#0)"}
\* the pull requests that exist on the hosting service
PullRequests == {7, 42}

Commits == [message : Messages, author : [username : Authors]]

\* sequences over S of length lo..hi
SeqsBetween(S, lo, hi) == UNION {[1..n -> S] : n \in lo..hi}

Payloads ==
    [ref : Refs,
     commits : SeqsBetween(Commits, 0, MaxCommits),
     repository : [name : Repos, owner : [login : Owners]]]

ACCOUNT_LINK_PROMPT ==
    "Congratulations on your first merged pull request! We'd like to credit you for your contribution in the post announcing the next WordPress release, but we can't find a WordPress.org profile associated with your GitHub account. When you have a moment, visit the following URL and click \"link your GitHub account\" under \"GitHub Username\" to link your accounts:\n\nhttps://profiles.wordpress.org/me/profile/edit/\n\nAnd if you don't have a WordPress.org account, you can create one on this page:\n\nhttps://login.wordpress.org/register\n\nKudos!"

FIRST_TIME_LABEL == "First-time Contributor"

----------------------------------------------------------------------------
(* Pure parts of the handler *)

\* a variant that takes every branch for master
IsMasterAnyHead(ref) == ref \in HeadRefs
\* payload.ref !== 'refs/heads/master', negated
IsMaster(ref) == ref = "refs/heads/master"

\* a variant that reads the head commit of the push
LastCommit(commits) == commits[Len(commits)]
\* payload.commits[ 0 ]
FirstCommit(commits) == commits[1]

\* the pull request number a commit message ends a line with, "(#N)", or null
getAssociatedPullRequest(commit) ==
    CASE commit.message = "Add block (#42)" -> 42
      [] commit.message = "Update docs (#7)" -> 7
      [] commit.message = "Revert (#0)" -> 0
      [] OTHER -> NULL

\* ! pullRequest: null and 0 are falsy
NoPullRequest(pullRequest) == pullRequest = NULL \/ pullRequest = 0

\* variants of the comparison: >= 1 and > 2
NotFirstCommitOffByOne(length) == length >= 1
NotFirstCommitTooLate(length) == length > 2
\* commits.length > 1
NotFirstCommit(length) == length > 1

\* a variant that prompts whatever the lookup answered
ProfileKnownNever(hasProfile) == FALSE
\* if ( hasProfile )
ProfileKnown(hasProfile) == hasProfile = "true"

\* the locals before the handler assigned them
NoFrame ==
    [pullRequest |-> NULL, repo |-> "", owner |-> "", author |-> "",
     commits |-> NULL, hasProfile |-> "undefined"]

\* const pullRequest, repo, owner, author
Locals(p) ==
    [pullRequest |-> getAssociatedPullRequest(FirstCommit(p.commits)),
     repo |-> p.repository.name,
     owner |-> p.repository.owner.login,
     author |-> FirstCommit(p.commits).author.username,
     commits |-> NULL,
     hasProfile |-> "undefined"]

\* the parameter objects of the four requests
ListCommitsParams(f) ==
    [owner |-> f.owner, repo |-> f.repo, author |-> f.author]

AddLabelsParams(f) ==
    [owner |-> f.owner, repo |-> f.repo, issue_number |-> f.pullRequest,
     labels |-> <<FIRST_TIME_LABEL>>]

HasWordPressProfileParams(f) == [username |-> f.author]

\* a variant of createComment's parameters that passes the label as the body
CreateCommentParamsWrongBody(f) ==
    [owner |-> f.owner, repo |-> f.repo, issue_number |-> f.pullRequest,
     body |-> FIRST_TIME_LABEL]
\* octokit.issues.createComment( { owner, repo, issue_number, body } )
CreateCommentParams(f) ==
    [owner |-> f.owner, repo |-> f.repo, issue_number |-> f.pullRequest,
     body |-> ACCOUNT_LINK_PROMPT]

\* a request that was issued and is awaited
Request(op, params) == [op |-> op, params |-> params, status |-> "pending"]

\* the awaited request (the last one issued) settles
Settle(cs, status) == [cs EXCEPT ![Len(cs)].status = status]

Elements(seq) == {seq[i] : i \in DOMAIN seq}

----------------------------------------------------------------------------
(* State machine *)

Init ==
    /\ payload \in Payloads
    /\ pc = "start"
    /\ outcome = "pending"
    /\ frame = NoFrame
    /\ calls = <<>>
    /\ labels = [n \in PullRequests |-> {}]
    /\ comments = [n \in PullRequests |-> <<>>]
    /\ log = <<>>

\* the function returns or throws: its promise settles
Finish(how) ==
    /\ pc' = "done"
    /\ outcome' = how

\* lines 36-41: the push is not to master
AbortNotMaster ==
    /\ pc = "start"
    /\ ~IsMaster(payload.ref)
    /\ log' = Append(log, "Commit is not to master. Aborting")
    /\ Finish("returned")
    /\ UNCHANGED <<payload, frame, calls, labels, comments>>

\* lines 43-55 with payload.commits empty: commits[ 0 ] is undefined, and the
\* handler either throws on it or takes it for a commit without pull request
AbortNoCommit ==
    /\ pc = "start"
    /\ IsMaster(payload.ref)
    /\ payload.commits = <<>>
    /\ \E how \in {"returned", "threw"} : Finish(how)
    /\ UNCHANGED <<payload, frame, calls, labels, comments, log>>

\* lines 43-51: no pull request can be told from the first commit
AbortNoPullRequest ==
    /\ pc = "start"
    /\ IsMaster(payload.ref)
    /\ payload.commits # <<>>
    /\ NoPullRequest(getAssociatedPullRequest(FirstCommit(payload.commits)))
    /\ log' = Append(log, "Cannot determine pull request associated with commit. Aborting")
    /\ Finish("returned")
    /\ UNCHANGED <<payload, frame, calls, labels, comments>>

\* lines 43-64: the locals are set and the commits of the author are asked for
SearchCommits ==
    /\ pc = "start"
    /\ IsMaster(payload.ref)
    /\ payload.commits # <<>>
    /\ ~NoPullRequest(getAssociatedPullRequest(FirstCommit(payload.commits)))
    /\ frame' = Locals(payload)
    /\ log' = Append(log, "Searching for commits")
    /\ calls' = Append(calls, Request("listCommits", ListCommitsParams(frame')))
    /\ pc' = "listCommits"
    /\ UNCHANGED <<payload, outcome, labels, comments>>

\* lines 60-71: the listing arrives and holds more than one commit
AbortNotFirstCommit ==
    /\ pc = "listCommits"
    /\ \E length \in 0..MaxListed :
        /\ NotFirstCommit(length)
        /\ frame' = [frame EXCEPT !.commits = length]
    /\ calls' = Settle(calls, "resolved")
    /\ log' = Append(log, "Not the first commit for author. Aborting")
    /\ Finish("returned")
    /\ UNCHANGED <<payload, labels, comments>>

\* lines 60-82: the listing arrives, holds at most one commit, the label is asked for
AddLabel ==
    /\ pc = "listCommits"
    /\ \E length \in 0..MaxListed :
        /\ ~NotFirstCommit(length)
        /\ frame' = [frame EXCEPT !.commits = length]
    /\ log' = Append(log, "Adding 'First Time Contributor' label to issue")
    /\ calls' = Append(Settle(calls, "resolved"),
                       Request("addLabels", AddLabelsParams(frame')))
    /\ pc' = "addLabels"
    /\ UNCHANGED <<payload, outcome, labels, comments>>

\* a variant that swallows the failed listing
ListCommitsFailsSwallowed ==
    /\ pc = "listCommits"
    /\ calls' = Settle(calls, "rejected")
    /\ Finish("returned")
    /\ UNCHANGED <<payload, frame, labels, comments, log>>
\* line 60: the listing fails, and the rejection leaves the function
ListCommitsFails ==
    /\ pc = "listCommits"
    /\ calls' = Settle(calls, "rejected")
    /\ Finish("threw")
    /\ UNCHANGED <<payload, frame, labels, comments, log>>

\* a variant that posts the prompt without asking for the profile
CheckProfileSkipped ==
    /\ pc = "addLabels"
    /\ LET p == calls[Len(calls)].params IN
        /\ p.issue_number \in PullRequests
        /\ labels' = [labels EXCEPT ![p.issue_number] = @ \cup Elements(p.labels)]
    /\ calls' = Append(Settle(calls, "resolved"),
                       Request("createComment", CreateCommentParams(frame)))
    /\ pc' = "createComment"
    /\ UNCHANGED <<payload, outcome, frame, comments, log>>
\* lines 77-90: the label is on the pull request, the profile is asked for
CheckProfile ==
    /\ pc = "addLabels"
    /\ LET p == calls[Len(calls)].params IN
        /\ p.issue_number \in PullRequests
        /\ labels' = [labels EXCEPT ![p.issue_number] = @ \cup Elements(p.labels)]
    /\ log' = Append(log, "Checking for WordPress username")
    /\ calls' = Append(Settle(calls, "resolved"),
                       Request("hasWordPressProfile", HasWordPressProfileParams(frame)))
    /\ pc' = "hasWordPressProfile"
    /\ UNCHANGED <<payload, outcome, frame, comments>>

\* a variant that asks for the label again after a failure
AddLabelsFailsRetried ==
    /\ pc = "addLabels"
    /\ Len(calls) < 4
    /\ calls' = Append(Settle(calls, "rejected"),
                       Request("addLabels", AddLabelsParams(frame)))
    /\ UNCHANGED <<payload, pc, outcome, frame, labels, comments, log>>
\* line 77: adding the label fails, and the rejection leaves the function
AddLabelsFails ==
    /\ pc = "addLabels"
    /\ calls' = Settle(calls, "rejected")
    /\ Finish("threw")
    /\ UNCHANGED <<payload, frame, labels, comments, log>>

\* lines 88-103: the lookup answers that the author has a profile
AbortProfileKnown ==
    /\ pc = "hasWordPressProfile"
    /\ \E hasProfile \in {"true", "false"} :
        /\ ProfileKnown(hasProfile)
        /\ frame' = [frame EXCEPT !.hasProfile = hasProfile]
    /\ calls' = Settle(calls, "resolved")
    /\ log' = Append(log, "User already known. No need to prompt for account link!")
    /\ Finish("returned")
    /\ UNCHANGED <<payload, labels, comments>>

\* lines 88-110: the lookup answers that the author has none, the prompt is posted
PromptAccountLink ==
    /\ pc = "hasWordPressProfile"
    /\ \E hasProfile \in {"true", "false"} :
        /\ ~ProfileKnown(hasProfile)
        /\ frame' = [frame EXCEPT !.hasProfile = hasProfile]
    /\ calls' = Append(Settle(calls, "resolved"),
                       Request("createComment", CreateCommentParams(frame')))
    /\ pc' = "createComment"
    /\ UNCHANGED <<payload, outcome, labels, comments, log>>

\* a variant without the try/catch around the lookup
ProfileLookupFailsPropagated ==
    /\ pc = "hasWordPressProfile"
    /\ calls' = Settle(calls, "rejected")
    /\ Finish("threw")
    /\ UNCHANGED <<payload, frame, labels, comments, log>>
\* lines 89-96: the lookup fails; the error is caught, logged, and the function returns
ProfileLookupFails ==
    /\ pc = "hasWordPressProfile"
    /\ calls' = Settle(calls, "rejected")
    /\ log' = Append(log, "Error retrieving from profile API")
    /\ Finish("returned")
    /\ UNCHANGED <<payload, frame, labels, comments>>

\* lines 105-111: the comment is on the pull request, the function ends
CommentCreated ==
    /\ pc = "createComment"
    /\ LET p == calls[Len(calls)].params IN
        /\ p.issue_number \in PullRequests
        /\ comments' = [comments EXCEPT ![p.issue_number] = Append(@, p.body)]
    /\ calls' = Settle(calls, "resolved")
    /\ Finish("returned")
    /\ UNCHANGED <<payload, frame, labels, log>>

\* line 105: posting the comment fails, and the rejection leaves the function
CreateCommentFails ==
    /\ pc = "createComment"
    /\ calls' = Settle(calls, "rejected")
    /\ Finish("threw")
    /\ UNCHANGED <<payload, frame, labels, comments, log>>

Next ==
    \/ AbortNotMaster
    \/ AbortNoCommit
    \/ AbortNoPullRequest
    \/ SearchCommits
    \/ AbortNotFirstCommit
    \/ AddLabel
    \/ ListCommitsFails
    \/ CheckProfile
    \/ AddLabelsFails
    \/ AbortProfileKnown
    \/ PromptAccountLink
    \/ ProfileLookupFails
    \/ CommentCreated
    \/ CreateCommentFails

Spec == Init /\ [][Next]_vars

----------------------------------------------------------------------------
(* Observations on the record of requests *)

Ops == {calls[i].op : i \in DOMAIN calls}
Count(op) == Cardinality({i \in DOMAIN calls : calls[i].op = op})
Done == pc = "done"

TypeOK ==
    /\ payload \in Payloads
    /\ pc \in {"start", "listCommits", "addLabels", "hasWordPressProfile",
               "createComment", "done"}
    /\ outcome \in {"pending", "returned", "threw"}
    /\ Len(calls) <= 4

\* the requests of one kind, as positions in the record
CallsOf(op) == {i \in DOMAIN calls : calls[i].op = op}
Rejected(op) == \E i \in CallsOf(op) : calls[i].status = "rejected"
Resolved(op) == \E i \in CallsOf(op) : calls[i].status = "resolved"

\* nothing reached the collaborators
NoExternalEffect ==
    /\ calls = <<>>
    /\ \A n \in PullRequests : labels[n] = {} /\ comments[n] = <<>>

\* the event passed the branch guard and the pull request guard
PassedGuards ==
    /\ payload.ref = "refs/heads/master"
    /\ payload.commits # <<>>
    /\ getAssociatedPullRequest(payload.commits[1]) \in PullRequests
    /\ pc # "start"

----------------------------------------------------------------------------
(* Properties *)

\* C1: a push whose ref is not refs/heads/master causes no request at all
\* (no listing, no label, no lookup, no comment), and the handler returns
\* normally.
C1_NotMasterNoCalls ==
    payload.ref # "refs/heads/master" =>
        /\ NoExternalEffect
        /\ outcome # "threw"
        /\ Done => outcome = "returned"

C1_Witness ==
    /\ payload.ref = "refs/heads/trunk"
    /\ payload.commits # <<>>
    /\ getAssociatedPullRequest(payload.commits[1]) = 42
    /\ Done
    /\ outcome = "returned"

\* C2: a push to master whose first commit tells no pull request causes no
\* request at all and the handler returns normally; the author and the pull
\* request of every request come from the first commit of the push alone.
C2_NoPullRequestNoCalls ==
    /\ ( /\ payload.ref = "refs/heads/master"
         /\ payload.commits # <<>>
         /\ getAssociatedPullRequest(payload.commits[1]) = NULL )
       => /\ NoExternalEffect
          /\ outcome # "threw"
          /\ Done => outcome = "returned"
    /\ \A i \in DOMAIN calls :
        /\ calls[i].op = "listCommits" =>
            calls[i].params.author = payload.commits[1].author.username
        /\ calls[i].op = "hasWordPressProfile" =>
            calls[i].params.username = payload.commits[1].author.username
        /\ calls[i].op \in {"addLabels", "createComment"} =>
            calls[i].params.issue_number = getAssociatedPullRequest(payload.commits[1])

C2_Witness ==
    /\ payload.ref = "refs/heads/master"
    /\ Len(payload.commits) = 2
    /\ getAssociatedPullRequest(payload.commits[1]) = NULL
    /\ getAssociatedPullRequest(payload.commits[2]) = 42
    /\ Done
    /\ outcome = "returned"
    /\ calls = <<>>

\* C3: past both guards, a listing of exactly one commit makes the handler ask
\* once for the label "First-time Contributor" on the pull request of the
\* commit (and the label is on it once that request succeeded); a listing of two
\* or more commits makes it ask for no label, no profile and no comment.
C3_LabelIffSingleCommit ==
    PassedGuards =>
        /\ frame.commits = 1 =>
            /\ Count("addLabels") = 1
            /\ \A i \in CallsOf("addLabels") :
                /\ calls[i].params.labels = <<"First-time Contributor">>
                /\ calls[i].params.issue_number = getAssociatedPullRequest(payload.commits[1])
                /\ calls[i].status = "resolved" =>
                    labels[calls[i].params.issue_number] = {"First-time Contributor"}
        /\ frame.commits >= 2 =>
            /\ Ops = {"listCommits"}
            /\ Done /\ outcome = "returned"
            /\ \A n \in PullRequests : labels[n] = {} /\ comments[n] = <<>>

C3_Witness ==
    /\ PassedGuards
    /\ frame.commits = 1
    /\ Resolved("addLabels")
    /\ labels[42] = {"First-time Contributor"}

C3_WitnessMany ==
    /\ PassedGuards
    /\ frame.commits = 2
    /\ Done

\* C4: when the profile lookup fails, the label was asked for exactly once, no
\* comment is asked for, and the handler returns normally instead of throwing.
C4_LookupFailureSwallowed ==
    Rejected("hasWordPressProfile") =>
        /\ Count("addLabels") = 1
        /\ Resolved("addLabels")
        /\ Count("createComment") = 0
        /\ \A n \in PullRequests : comments[n] = <<>>
        /\ Done
        /\ outcome = "returned"

C4_Witness ==
    /\ Rejected("hasWordPressProfile")
    /\ Done

\* C5: when the label was added and the lookup answers false, exactly one
\* comment is asked for, its body is ACCOUNT_LINK_PROMPT, and it names the
\* owner, the repository and the pull request the label request named.
C5_PromptOnMissingProfile ==
    (Resolved("addLabels") /\ Resolved("hasWordPressProfile") /\ frame.hasProfile = "false") =>
        /\ Count("createComment") = 1
        /\ \A i \in CallsOf("createComment") :
            /\ calls[i].params.body = ACCOUNT_LINK_PROMPT
            /\ \A j \in CallsOf("addLabels") :
                /\ calls[i].params.owner = calls[j].params.owner
                /\ calls[i].params.repo = calls[j].params.repo
                /\ calls[i].params.issue_number = calls[j].params.issue_number
            /\ calls[i].status = "resolved" =>
                comments[calls[i].params.issue_number] = <<ACCOUNT_LINK_PROMPT>>

C5_Witness ==
    /\ Resolved("hasWordPressProfile")
    /\ frame.hasProfile = "false"
    /\ Resolved("createComment")
    /\ comments[42] = <<ACCOUNT_LINK_PROMPT>>
    /\ labels[42] = {"First-time Contributor"}

\* C6: when the label was added and the lookup answers true, no comment is
\* asked for and the handler returns normally.
C6_NoPromptOnKnownProfile ==
    (Resolved("addLabels") /\ Resolved("hasWordPressProfile") /\ frame.hasProfile = "true") =>
        /\ Count("createComment") = 0
        /\ \A n \in PullRequests : comments[n] = <<>>
        /\ Done
        /\ outcome = "returned"

C6_Witness ==
    /\ Resolved("addLabels")
    /\ Resolved("hasWordPressProfile")
    /\ frame.hasProfile = "true"
    /\ Done

\* C7: a failed listing and a failed label request leave the handler as a
\* fault and are the last request of the invocation; of all failures only the
\* failed profile lookup ends in a normal return.
C7_UpstreamFailuresPropagate ==
    /\ \A i \in DOMAIN calls :
        (calls[i].status = "rejected" /\ calls[i].op # "hasWordPressProfile") =>
            /\ i = Len(calls)
            /\ Done
            /\ outcome = "threw"
    /\ Rejected("listCommits") => Ops = {"listCommits"}
    /\ Rejected("addLabels") => Ops = {"listCommits", "addLabels"}
    /\ outcome = "threw" /\ calls # <<>> =>
        /\ calls[Len(calls)].status = "rejected"
        /\ calls[Len(calls)].op # "hasWordPressProfile"

C7_Witness ==
    /\ Rejected("listCommits")
    /\ outcome = "threw"

C7_WitnessLabel ==
    /\ Rejected("addLabels")
    /\ outcome = "threw"

\* C8: the requests go out in the order listing, label, lookup, comment, each
\* only after the one before it succeeded, and the comment only after the
\* lookup answered false.
C8_StrictOrder ==
    /\ calls # <<>> => calls[1].op = "listCommits"
    /\ \A i \in DOMAIN calls : i > 1 =>
        /\ calls[i - 1].status = "resolved"
        /\ <<calls[i - 1].op, calls[i].op>> \in
              {<<"listCommits", "addLabels">>,
               <<"addLabels", "hasWordPressProfile">>,
               <<"hasWordPressProfile", "createComment">>}
    /\ "createComment" \in Ops => frame.hasProfile = "false"
    /\ \A i \in DOMAIN calls : i < Len(calls) => calls[i].status # "pending"

C8_Witness ==
    /\ Len(calls) = 4
    /\ calls[4].op = "createComment"
    /\ calls[4].status = "resolved"

\* C9: each of the four requests goes out at most once in an invocation,
\* whatever the collaborators answer.
C9_AtMostOnce ==
    \A op \in {"listCommits", "addLabels", "hasWordPressProfile", "createComment"} :
        Count(op) <= 1

C9_Witness ==
    /\ Rejected("addLabels")
    /\ Done
    /\ Count("addLabels") = 1

\* C10 as stated: the label is asked for only when the listing holds exactly
\* one commit, and never when it holds none.
C10_LabelOnlyForOneCommit ==
    "addLabels" \in Ops => frame.commits = 1

\* C10 as amended: the label is asked for only when the listing holds at most
\* one commit; a listing without any commit is treated like a listing of one
\* commit, so the label is asked for.
C10_LabelOnlyUpToOneCommit ==
    /\ "addLabels" \in Ops => frame.commits \in {0, 1}
    /\ (PassedGuards /\ frame.commits = 0) => Count("addLabels") = 1

C10_Witness ==
    /\ frame.commits = 0
    /\ Resolved("addLabels")
    /\ labels[7] = {"First-time Contributor"}

====
